---- MODULE Spec2Model ----
(***************************************************************************)
(* Indian Census API (src/main.py): the request handlers that resolve      *)
(* names, fetch fact rows from census_data, group them and compose the     *)
(* JSON response.                                                          *)
(*                                                                         *)
(* Conventions of the model                                                *)
(*   - a Python str is a TLA+ string; str.lower, str.strip, str.capitalize *)
(*     and SQL LOWER/TRIM are the tables Lower, Strip, Capitalize over the *)
(*     strings the model uses (anything not listed is left unchanged, as   *)
(*     it is for a string that is already lowercase / unpadded);           *)
(*   - Optional[x] is a sequence: <<>> is None, <<v>> is the value v;      *)
(*   - a comma-separated parameter is the sequence of its pieces, that is  *)
(*     what str.split(",") returns (the empty string is <<"">>);           *)
(*   - a JSON object is a function from keys to values, a JSON list a      *)
(*     sequence; a dict whose insertion order reaches the response is an   *)
(*     ordered dict [keys, val];                                           *)
(*   - a response is [status, detail, body]; body is the sequence of       *)
(*     emitted objects (one element for an endpoint returning one object); *)
(*   - a SELECT without ORDER BY returns its rows in any order.            *)
(***************************************************************************)
EXTENDS Integers, Sequences, FiniteSets, TLC

VARIABLES
    store,      \* the census_data table: a set of fact rows (read-only)
    pc,         \* "idle" | "done"
    req,        \* the request being served
    fetched,    \* the row sequences the request's queries returned, in order
    queries,    \* the queries the request issued, in order
    acquired,   \* number of pool connections the request acquired
    resp,       \* the response the caller receives
    pool,       \* app.state.db_pool and the progress of lifespan()
    inflight    \* the requests being handled concurrently, one per slot

vars == <<store, pc, req, fetched, queries, acquired, resp, pool, inflight>>

(***************************************************************************)
(* Bounds                                                                  *)
(***************************************************************************)
MaxRows == 3        \* rows drawn from a catalogue into the store
MaxUnits == 4       \* rows below state level drawn into the store
MaxRequests == 2    \* requests handled at the same time

(***************************************************************************)
(* Strings                                                                 *)
(***************************************************************************)
LowerNoop(s) == s

Lower(s) ==
    CASE s = "Karnataka"    -> "karnataka"
      [] s = "KARNATAKA"    -> "karnataka"
      [] s = " Karnataka "  -> " karnataka "
      [] s = "Goa"          -> "goa"
      [] s = " Goa "        -> " goa "
      [] s = "GOA"          -> "goa"
      [] s = "Atlantis"     -> "atlantis"
      [] s = "Total"        -> "total"
      [] s = "TOTAL"        -> "total"
      [] s = "Rural"        -> "rural"
      [] s = " Rural "      -> " rural "
      [] s = "Urban"        -> "urban"
      [] s = "URBAN"        -> "urban"
      [] s = "Bogus"        -> "bogus"
      [] s = "STATE"        -> "state"
      [] s = "State"        -> "state"
      [] s = "DISTRICT"     -> "district"
      [] s = "SUB-DISTRICT" -> "sub-district"
      [] s = "TOWN"         -> "town"
      [] s = " Town"        -> " town"
      [] s = "VILLAGE"      -> "village"
      [] OTHER              -> s

StripNoop(s) == s

Strip(s) ==
    CASE s = " Karnataka "  -> "Karnataka"
      [] s = " karnataka "  -> "karnataka"
      [] s = " Goa "        -> "Goa"
      [] s = " goa "        -> "goa"
      [] s = " Rural "      -> "Rural"
      [] s = " rural "      -> "rural"
      [] s = " Town"        -> "Town"
      [] s = " town"        -> "town"
      [] s = " "            -> ""
      [] s = " state"       -> "state"
      [] s = " name "       -> "name"
      [] OTHER              -> s

Capitalize(s) ==
    CASE Lower(s) = "total" -> "Total"
      [] Lower(s) = "rural" -> "Rural"
      [] Lower(s) = "urban" -> "Urban"
      [] OTHER              -> s

\* Byte order of the names the model sorts (ORDER BY name).
Collation ==
    << " Goa ", " Karnataka ", "Bagalkot", "Belgaum", "Chikodi", "Goa",
       "Gokak", "Hunsur", "KARNATAKA", "Kabbur", "Karnataka", "Mudhol",
       "Nipani", "North Goa", "STATE", "State" >>

Rank(s) == CHOOSE i \in DOMAIN Collation : Collation[i] = s

(***************************************************************************)
(* Python / SQL helpers                                                    *)
(***************************************************************************)
None == <<>>

Some(v) == <<v>>

\* truthiness of an Optional[str]: None and "" are falsy
TruthyStr(o) == o # None /\ o[1] # ""

\* truthiness of an Optional[int]: None and 0 are falsy
TruthyInt(o) == o # None /\ o[1] # 0

Range(s) == {s[i] : i \in DOMAIN s}

\* every sequence that lists the elements of S once
RECURSIVE Perms(_)
Perms(S) ==
    IF S = {} THEN {<<>>}
    ELSE UNION {{<<x>> \o p : p \in Perms(S \ {x})} : x \in S}

\* d[k] = v
Put(d, k, v) == [x \in DOMAIN d \cup {k} |-> IF x = k THEN v ELSE d[x]]

\* insertion-ordered dict
EmptyOD == [keys |-> <<>>, val |-> <<>>]

ODHas(d, k) == k \in Range(d.keys)

ODSet(d, k, v) ==
    [keys |-> IF ODHas(d, k) THEN d.keys ELSE Append(d.keys, k),
     val  |-> Put(d.val, k, v)]

\* list(d.values())
ODValues(d) == [i \in DOMAIN d.keys |-> d.val[d.keys[i]]]

(***************************************************************************)
(* Fact rows                                                               *)
(***************************************************************************)
MkRow(level, state, district, subdistt, town_village, name, tru, n) ==
    [level |-> level, state |-> state, district |-> district,
     subdistt |-> subdistt, town_village |-> town_village,
     name |-> name, tru |-> tru,
     tot_p |-> n, tot_m |-> n + 1, tot_f |-> n + 2, no_hh |-> n + 3,
     p_06 |-> n + 4, m_06 |-> n + 5, f_06 |-> n + 6,
     p_sc |-> n + 7, m_sc |-> n + 8, f_sc |-> n + 9,
     p_st |-> n + 10, m_st |-> n + 11, f_st |-> n + 12,
     p_lit |-> n + 13, m_lit |-> n + 14, f_lit |-> n + 15,
     tot_work_p |-> n + 16, tot_work_m |-> n + 17, tot_work_f |-> n + 18,
     non_work_p |-> n + 19, non_work_m |-> n + 20, non_work_f |-> n + 21]

KarnatakaRural == MkRow("STATE", 1, 0, 0, 0, "Karnataka", "Rural", 100)
KarnatakaUrban == MkRow("STATE", 1, 0, 0, 0, "Karnataka", "Urban", 50)
KarnatakaTotal == MkRow("STATE", 1, 0, 0, 0, "Karnataka", "Total", 150)

\* State-level rows the store is drawn from.  Beside the three Karnataka
\* rows: the same code under another spelling (and a second Urban row of
\* code 1), a second state, a padded spelling, and another code that carries
\* the display name Karnataka.
StateRows ==
    { KarnatakaRural, KarnatakaUrban, KarnatakaTotal,
      MkRow("STATE", 1, 0, 0, 0, "KARNATAKA", "Urban", 60),
      MkRow("STATE", 1, 0, 0, 0, "Karnataka", "Urban", 55),
      MkRow("STATE", 2, 0, 0, 0, "Goa", "Rural", 30),
      MkRow("STATE", 2, 0, 0, 0, "Goa", "Urban", 20),
      MkRow("State", 2, 0, 0, 0, " Goa ", "Total", 40),
      MkRow("STATE", 3, 0, 0, 0, "Karnataka", "Total", 10) }

BoundedSubsets(S, n) == {T \in SUBSET S : Cardinality(T) <= n}

(***************************************************************************)
(* Request validation shared by the name/tru endpoints                     *)
(***************************************************************************)
allowed_tru == {"total", "rural", "urban"}

\* if tru and tru.lower() not in allowed_tru: raise HTTPException(400)
TruRejected(tru) == TruthyStr(tru) /\ Lower(tru[1]) \notin allowed_tru

\* the pieces trimmed but with their case kept
ParseStatesCaseKept(states) ==
    LET kept == SelectSeq(states, LAMBDA s : Strip(s) # "")
    IN  [i \in DOMAIN kept |-> Strip(kept[i])]

\* [s.strip().lower() for s in states.split(",") if s.strip()]
ParseStates(states) ==
    LET kept == SelectSeq(states, LAMBDA s : Strip(s) # "")
    IN  [i \in DOMAIN kept |-> Lower(Strip(kept[i]))]

\* WHERE TRIM(LOWER(level)) = <level>
AtLevel(r, level) == Strip(Lower(r.level)) = level

\* AND TRIM(LOWER(name)) IN (<placeholders>)
NameIn(r, values) == Strip(Lower(r.name)) \in Range(values)

\* AND TRIM(LOWER(tru)) = <bound value>, appended only if tru is truthy
TruMatches(r, tru, bound) == TruthyStr(tru) => Strip(Lower(r.tru)) = bound

\* the rows of the state-level fact query of the name/tru endpoints
StateFactRows(S, values, tru, bound) ==
    {r \in S : AtLevel(r, "state") /\ NameIn(r, values)
                /\ TruMatches(r, tru, bound)}

Response(status, detail, body) ==
    [status |-> status, detail |-> detail, body |-> body]

\* except Exception as e: raise HTTPException(status_code=500, detail=str(e))
\* also catches the HTTPException(404) raised inside the try block.
Swallowed(status, detail) == Response(500, detail, <<>>)

Query(name, values, limit, offset) ==
    [name |-> name, values |-> values, limit |-> limit, offset |-> offset]

Outcome(r, q, f, a) ==
    [resp |-> r, queries |-> q, fetched |-> f, acquired |-> a]

Block(total, male, female) ==
    [total |-> total, male |-> male, female |-> female]

(***************************************************************************)
(* /state-population                                                       *)
(***************************************************************************)
\* SELECT DISTINCT name, state ... (meta_query)
MetaRows(S, values, tru, bound) ==
    {[name |-> r.name, state |-> r.state] :
        r \in StateFactRows(S, values, tru, bound)}

\* lines 204-218: one entry per meta row, then every population row is
\* written into every entry that carries its state code
StatePopulationResults(meta_rows, pop_rows, include_population) ==
    LET entry(m) ==
            IF include_population
            THEN [name |-> m.name, state |-> m.state, population |-> <<>>]
            ELSE [name |-> m.name, state |-> m.state]
        results == [i \in DOMAIN meta_rows |-> entry(meta_rows[i])]
        merge(res, row) ==
            [i \in DOMAIN res |->
                IF res[i].state = row.state
                THEN [res[i] EXCEPT
                        !.population = Put(@, Lower(row.tru), row.tot_p)]
                ELSE res[i]]
        F[k \in 0..Len(pop_rows)] ==
            IF k = 0 THEN results ELSE merge(F[k - 1], pop_rows[k])
    IN  IF include_population THEN F[Len(pop_rows)] ELSE results

StatePopulationOutcomes(S, states, tru, include_population) ==
    LET state_list == ParseStates(states)
        bound == IF TruthyStr(tru) THEN Lower(Strip(tru[1])) ELSE ""
        base_values == IF TruthyStr(tru)
                       THEN Append(state_list, bound) ELSE state_list
        meta_q == Query("meta_query", base_values, None, None)
        pop_q == Query("pop_query", base_values, None, None)
    IN  IF TruRejected(tru)
        THEN {Outcome(Response(400,
                "Invalid tru value. Use: total, rural, or urban", <<>>),
                <<>>, <<>>, 0)}
        ELSE IF state_list = <<>>
        THEN {Outcome(Response(400, "No valid state names provided.", <<>>),
                <<>>, <<>>, 0)}
        ELSE IF MetaRows(S, state_list, tru, bound) = {}
        THEN {Outcome(Swallowed(404, "404: No matching states found"),
                <<meta_q>>, << <<>> >>, 1)}
        ELSE IF ~include_population
        THEN {Outcome(Response(200, "",
                    StatePopulationResults(meta_rows, <<>>, FALSE)),
                <<meta_q>>, <<meta_rows>>, 1) :
                meta_rows \in Perms(MetaRows(S, state_list, tru, bound))}
        ELSE {Outcome(Response(200, "",
                    StatePopulationResults(mp[1], mp[2], TRUE)),
                <<meta_q, pop_q>>, <<mp[1], mp[2]>>, 1) :
                mp \in Perms(MetaRows(S, state_list, tru, bound))
                       \X Perms(StateFactRows(S, state_list, tru, bound))}

(***************************************************************************)
(* The skeleton the other six name/tru endpoints repeat: validate tru,     *)
(* parse the names, acquire a connection, run one fact query, raise 404 on *)
(* no rows, group, respond; any exception in the try block becomes a 500.  *)
(* NameTruFetch is the skeleton up to the fetch; each handler then groups  *)
(* the rows it fetched.                                                    *)
(***************************************************************************)
NameTruFetch(qname, S, states, tru) ==
    LET values == ParseStates(states)
        bound == IF TruthyStr(tru) THEN Lower(tru[1]) ELSE ""
        bind == IF TruthyStr(tru) THEN Append(values, bound) ELSE values
        q == Query(qname, bind, None, None)
        matching == StateFactRows(S, values, tru, bound)
    IN  IF TruRejected(tru)
        THEN {Outcome(Response(400, "Invalid TRU value", <<>>),
                <<>>, <<>>, 0)}
        ELSE IF values = <<>>
        THEN {Outcome(Response(400, "No valid state names provided.", <<>>),
                <<>>, <<>>, 0)}
        ELSE IF matching = {}
        THEN {Outcome(Swallowed(404, "404: No data found"),
                <<q>>, << <<>> >>, 1)}
        ELSE {Outcome(Response(200, "", <<>>), <<q>>, <<rows>>, 1) :
                rows \in Perms(matching)}

\* return JSONResponse(content=body)
WithBody(o, body) == [o EXCEPT !.resp.body = body]

(***************************************************************************)
(* /state-gender-population, lines 265-282                                 *)
(***************************************************************************)
StateGenderCompose(rows, tru) ==
    LET step(g, row) ==
            LET state_id == row.state
                cur == IF ODHas(g, state_id) THEN g.val[state_id]
                       ELSE [population |-> <<>>]
                named == IF "name" \in DOMAIN cur THEN cur
                         ELSE Put(Put(cur, "name", row.name),
                                  "state", state_id)
            IN  ODSet(g, state_id,
                    [named EXCEPT !.population =
                        Put(@, Lower(row.tru),
                            Block(row.tot_p, row.tot_m, row.tot_f))])
        F[k \in 0..Len(rows)] ==
            IF k = 0 THEN EmptyOD ELSE step(F[k - 1], rows[k])
    IN  ODValues(F[Len(rows)])

StateGenderOutcomes(S, states, tru) ==
    {IF o.resp.status = 200
     THEN WithBody(o, StateGenderCompose(o.fetched[1], tru))
     ELSE o : o \in NameTruFetch("gender_query", S, states, tru)}

(***************************************************************************)
(* /state-literacy, lines 328-361                                          *)
(***************************************************************************)
StateLiteracyCompose(rows, tru) ==
    LET step(g, row) ==
            LET key == <<row.state, row.name>>
                g1 == IF ODHas(g, key) THEN g ELSE ODSet(g, key, <<>>)
                tru_key == IF tru = None THEN Some(Lower(row.tru)) ELSE None
                literacy_data == Block(row.p_lit, row.m_lit, row.f_lit)
            IN  IF TruthyStr(tru_key)
                THEN ODSet(g1, key,
                        Put(g1.val[key], tru_key[1], literacy_data))
                ELSE ODSet(g1, key, literacy_data)
        F[k \in 0..Len(rows)] ==
            IF k = 0 THEN EmptyOD ELSE step(F[k - 1], rows[k])
        grouped == F[Len(rows)]
        obj(key, data) ==
            IF TruthyStr(tru)
            THEN [name |-> key[2], state |-> key[1],
                  tru |-> Capitalize(tru[1]), literacy |-> data]
            ELSE [name |-> key[2], state |-> key[1], literacy |-> data]
    IN  [i \in DOMAIN grouped.keys |->
            obj(grouped.keys[i], grouped.val[grouped.keys[i]])]

StateLiteracyOutcomes(S, states, tru) ==
    {IF o.resp.status = 200
     THEN WithBody(o, StateLiteracyCompose(o.fetched[1], tru))
     ELSE o : o \in NameTruFetch("literacy_query", S, states, tru)}

(***************************************************************************)
(* /state-workers, lines 407-425                                           *)
(***************************************************************************)
StateWorkersCompose(rows, tru) ==
    LET step(g, row) ==
            LET key == row.state
                g1 == IF ODHas(g, key) THEN g
                      ELSE ODSet(g, key, [name |-> row.name,
                                          state |-> row.state,
                                          workers |-> <<>>])
            IN  ODSet(g1, key,
                    [g1.val[key] EXCEPT !.workers =
                        Put(@, Lower(row.tru),
                            Block(row.tot_work_p, row.tot_work_m,
                                  row.tot_work_f))])
        F[k \in 0..Len(rows)] ==
            IF k = 0 THEN EmptyOD ELSE step(F[k - 1], rows[k])
    IN  ODValues(F[Len(rows)])

StateWorkersOutcomes(S, states, tru) ==
    {IF o.resp.status = 200
     THEN WithBody(o, StateWorkersCompose(o.fetched[1], tru))
     ELSE o : o \in NameTruFetch("worker_query", S, states, tru)}

(***************************************************************************)
(* /state-caste-population, lines 471-496                                  *)
(***************************************************************************)
StateCasteCompose(rows, tru) ==
    LET step(g, row) ==
            LET state_id == row.state
                g1 == IF ODHas(g, state_id) THEN g
                      ELSE ODSet(g, state_id, [name |-> row.name,
                                               state |-> row.state,
                                               caste_population |-> <<>>])
            IN  ODSet(g1, state_id,
                    [g1.val[state_id] EXCEPT !.caste_population =
                        Put(@, Lower(row.tru),
                            [sc |-> Block(row.p_sc, row.m_sc, row.f_sc),
                             st |-> Block(row.p_st, row.m_st, row.f_st)])])
        F[k \in 0..Len(rows)] ==
            IF k = 0 THEN EmptyOD ELSE step(F[k - 1], rows[k])
    IN  ODValues(F[Len(rows)])

StateCasteOutcomes(S, states, tru) ==
    {IF o.resp.status = 200
     THEN WithBody(o, StateCasteCompose(o.fetched[1], tru))
     ELSE o : o \in NameTruFetch("caste_query", S, states, tru)}

(***************************************************************************)
(* /state-non-workers, lines 541-557                                       *)
(* state_key = f"{row['state']}_{row['name']}" is the pair <<state, name>> *)
(***************************************************************************)
StateNonWorkersCompose(rows, tru) ==
    LET step(g, row) ==
            LET state_key == <<row.state, row.name>>
                g1 == IF ODHas(g, state_key) THEN g
                      ELSE ODSet(g, state_key, [name |-> row.name,
                                                state |-> row.state,
                                                non_workers |-> <<>>])
            IN  ODSet(g1, state_key,
                    [g1.val[state_key] EXCEPT !.non_workers =
                        Put(@, Lower(row.tru),
                            Block(row.non_work_p, row.non_work_m,
                                  row.non_work_f))])
        F[k \in 0..Len(rows)] ==
            IF k = 0 THEN EmptyOD ELSE step(F[k - 1], rows[k])
    IN  ODValues(F[Len(rows)])

StateNonWorkersOutcomes(S, states, tru) ==
    {IF o.resp.status = 200
     THEN WithBody(o, StateNonWorkersCompose(o.fetched[1], tru))
     ELSE o : o \in NameTruFetch("query", S, states, tru)}

(***************************************************************************)
(* /state-households, lines 660-691                                        *)
(***************************************************************************)
StateHouseholdsCompose(rows, tru) ==
    LET step(state_data, row) ==
            LET state_id == row.state
                tru_value == Lower(row.tru)
                seeded ==
                    IF ODHas(state_data, state_id) THEN state_data
                    ELSE ODSet(state_data, state_id,
                            [name |-> row.name,
                             state |-> state_id,
                             households |-> IF TruthyStr(tru)
                                            THEN row.no_hh ELSE <<>>,
                             population |->
                                Block(row.tot_p, row.tot_m, row.tot_f),
                             under_6 |->
                                Block(row.p_06, row.m_06, row.f_06)])
            IN  IF ~TruthyStr(tru)
                THEN ODSet(seeded, state_id,
                        [seeded.val[state_id] EXCEPT !.households =
                            Put(@, tru_value, row.no_hh)])
                ELSE seeded
        F[k \in 0..Len(rows)] ==
            IF k = 0 THEN EmptyOD ELSE step(F[k - 1], rows[k])
    IN  ODValues(F[Len(rows)])

StateHouseholdsOutcomes(S, states, tru) ==
    {IF o.resp.status = 200
     THEN WithBody(o, StateHouseholdsCompose(o.fetched[1], tru))
     ELSE o : o \in NameTruFetch("base_query", S, states, tru)}

(***************************************************************************)
(* /state-locations, lines 567-616                                         *)
(***************************************************************************)
\* state.strip().lower()
NormalizeName(state) == Lower(Strip(state))

\* SELECT DISTINCT state, name ... WHERE level is state AND name is $1
StateMetaRows(S, state_name) ==
    {[state |-> r.state, name |-> r.name] :
        r \in {x \in S : AtLevel(x, "state")
                          /\ Strip(Lower(x.name)) = state_name}}

\* the elements of a set of names in ORDER BY name order
SortedNames(N) ==
    CHOOSE p \in Perms(N) :
        \A i, j \in DOMAIN p : i < j => Rank(p[i]) < Rank(p[j])

\* fetch_names(level_name): SELECT DISTINCT name ... ORDER BY name
FetchNames(S, level_name, state_code) ==
    SortedNames({r.name : r \in {x \in S : AtLevel(x, level_name)
                                            /\ x.state = state_code}})

StateLocationsOutcomes(S, state) ==
    LET state_name == NormalizeName(state)
        meta_q == Query("meta_query", <<state_name>>, Some(1), None)
        names_q(level) == Query("fetch_names", <<level>>, None, None)
        result(meta_row) ==
            [name |-> meta_row.name,
             state |-> meta_row.state,
             districts |-> FetchNames(S, "district", meta_row.state),
             subdistricts |-> FetchNames(S, "sub-district", meta_row.state),
             towns |-> FetchNames(S, "town", meta_row.state),
             villages |-> FetchNames(S, "village", meta_row.state)]
    IN  IF StateMetaRows(S, state_name) = {}
        THEN {Outcome(Swallowed(404, "404: State not found"),
                <<meta_q>>, << <<>> >>, 1)}
        ELSE {Outcome(Response(200, "", <<result(m)>>),
                <<meta_q, names_q("district"), names_q("sub-district"),
                  names_q("town"), names_q("village")>>,
                << <<m>> >>, 1) : m \in StateMetaRows(S, state_name)}

(***************************************************************************)
(* /state-location-hierarchy, lines 703-802                                *)
(* The nodes built here keep the codes of the row they were built from     *)
(* (district, subdistt), so that properties can speak of them; Render is   *)
(* the JSON the handler emits, which carries the names only.               *)
(***************************************************************************)
\* SELECT DISTINCT district, name ... ORDER BY name (rows of equal name in
\* any order)
DistrictRows(S, state_code) ==
    LET D == {[district |-> r.district, name |-> r.name] :
                r \in {x \in S : x.state = state_code
                                  /\ AtLevel(x, "district")}}
    IN  {p \in Perms(D) :
            \A i, j \in DOMAIN p : i < j => Rank(p[i].name) <= Rank(p[j].name)}

\* SELECT DISTINCT subdistt, district, name ... (no ORDER BY)
SubdistrictRows(S, state_code) ==
    Perms({[subdistt |-> r.subdistt, district |-> r.district,
            name |-> r.name] :
            r \in {x \in S : x.state = state_code
                              /\ AtLevel(x, "sub-district")}})

\* SELECT name, level, district, subdistt ...
\*   WHERE state = $1 AND TRIM(LOWER(level)) IN ('town', 'village')
PlaceRows(S, state_code) ==
    Perms({x \in S : x.state = state_code
                      /\ Strip(Lower(x.level)) \in {"town", "village"}})

\* place_map[key], a defaultdict(lambda: {"towns": [], "villages": []})
PlaceMapGet(place_map, key) ==
    IF key \in DOMAIN place_map THEN place_map[key]
    ELSE [towns |-> <<>>, villages |-> <<>>]

\* lines 760-765
BuildPlaceMap(places) ==
    LET add(place_map, p) ==
            LET key == <<p.district, p.subdistt>>
                cur == PlaceMapGet(place_map, key)
                entry == [name |-> p.name, level |-> p.level,
                          district |-> p.district, subdistt |-> p.subdistt]
            IN  IF Lower(p.level) = "town"
                THEN Put(place_map, key,
                         [cur EXCEPT !.towns = Append(@, entry)])
                ELSE Put(place_map, key,
                         [cur EXCEPT !.villages = Append(@, entry)])
        F[k \in 0..Len(places)] ==
            IF k = 0 THEN <<>> ELSE add(F[k - 1], places[k])
    IN  F[Len(places)]

SubMapKeyBySubdistt(sub) == sub.subdistt

\* key = sub["district"]
SubMapKey(sub) == sub.district

\* lines 767-782
BuildSubMap(subdistricts, place_map, include_places) ==
    LET add(sub_map, sub) ==
            LET key == SubMapKey(sub)
                sub_key == <<sub.district, sub.subdistt>>
                cur == IF key \in DOMAIN sub_map THEN sub_map[key] ELSE <<>>
                node ==
                    IF include_places
                    THEN [name |-> sub.name, district |-> sub.district,
                          subdistt |-> sub.subdistt,
                          towns |-> PlaceMapGet(place_map, sub_key).towns,
                          villages |->
                              PlaceMapGet(place_map, sub_key).villages]
                    ELSE [name |-> sub.name, district |-> sub.district,
                          subdistt |-> sub.subdistt]
            IN  Put(sub_map, key, Append(cur, node))
        F[k \in 0..Len(subdistricts)] ==
            IF k = 0 THEN <<>> ELSE add(F[k - 1], subdistricts[k])
    IN  F[Len(subdistricts)]

\* lines 785-797
HierarchyTree(state_display, districts, subdistricts, places, include_subdistricts, include_places) ==
    LET place_map == BuildPlaceMap(places)
        sub_map == BuildSubMap(subdistricts, place_map, include_places)
        node(dist) ==
            IF include_subdistricts
            THEN [name |-> dist.name, district |-> dist.district,
                  subdistricts |->
                      IF dist.district \in DOMAIN sub_map
                      THEN sub_map[dist.district] ELSE <<>>]
            ELSE [name |-> dist.name, district |-> dist.district]
    IN  [state |-> state_display,
         districts |-> [i \in DOMAIN districts |-> node(districts[i])]]

Names(entries) == [i \in DOMAIN entries |-> entries[i].name]

RenderSub(sub) ==
    IF "towns" \in DOMAIN sub
    THEN [name |-> sub.name, towns |-> Names(sub.towns),
          villages |-> Names(sub.villages)]
    ELSE [name |-> sub.name]

RenderDistrict(dist) ==
    IF "subdistricts" \in DOMAIN dist
    THEN [name |-> dist.name,
          subdistricts |-> [i \in DOMAIN dist.subdistricts |->
                               RenderSub(dist.subdistricts[i])]]
    ELSE [name |-> dist.name]

\* the JSON object of the tree
Render(tree) ==
    [state |-> tree.state,
     districts |-> [i \in DOMAIN tree.districts |->
                       RenderDistrict(tree.districts[i])]]

\* the queries every request for an existing state would issue if the flags
\* were not consulted
HierarchyQueriesUnconditional(state_name, include_subdistricts, include_places) ==
    << Query("state_row", <<state_name>>, Some(1), None),
       Query("districts", <<>>, None, None),
       Query("subdistricts", <<>>, None, None),
       Query("places", <<>>, None, None) >>

\* the queries a request for an existing state issues: lines 708, 725, and
\* under `if include_subdistricts:` 740, under `if include_places:` 751
HierarchyQueries(state_name, include_subdistricts, include_places) ==
    << Query("state_row", <<state_name>>, Some(1), None),
       Query("districts", <<>>, None, None) >>
        \o (IF include_subdistricts
            THEN <<Query("subdistricts", <<>>, None, None)>> ELSE <<>>)
        \o (IF include_subdistricts /\ include_places
            THEN <<Query("places", <<>>, None, None)>> ELSE <<>>)

LocationHierarchyOutcomes(S, state, include_subdistricts, include_places) ==
    LET state_name == NormalizeName(state)
        state_q == Query("state_row", <<state_name>>, Some(1), None)
        served(m, d, sd, pl) ==
            Outcome(Response(200, "",
                        <<Render(HierarchyTree(m.name, d, sd, pl,
                                    include_subdistricts, include_places))>>),
                    HierarchyQueries(state_name, include_subdistricts,
                                     include_places),
                    << <<m>>, d, sd, pl >>, 1)
    IN  IF StateMetaRows(S, state_name) = {}
        THEN {Outcome(Swallowed(404, "404: State not found"),
                <<state_q>>, << <<>> >>, 1)}
        ELSE UNION {
               {served(m, c[1], c[2], c[3]) :
                  c \in DistrictRows(S, m.state)
                        \X (IF include_subdistricts
                            THEN SubdistrictRows(S, m.state) ELSE {<<>>})
                        \X (IF include_subdistricts /\ include_places
                            THEN PlaceRows(S, m.state) ELSE {<<>>})} :
               m \in StateMetaRows(S, state_name)}

(***************************************************************************)
(* /district-population-breakdown, lines 815-882                           *)
(***************************************************************************)
\* FROM census_data c JOIN (SELECT DISTINCT state, name ... ) s
\*   ON c.state = s.state WHERE TRIM(LOWER(c.level)) = 'district' [AND tru]
\* A joined row is the district row c with s.name as its state.
DistrictJoin(S, state_values, tru, bound) ==
    LET s_rows == {[state |-> r.state, name |-> r.name] :
                     r \in {x \in S : AtLevel(x, "state")
                                       /\ NameIn(x, state_values)}}
        c_rows == {x \in S : AtLevel(x, "district")
                              /\ TruMatches(x, tru, bound)}
    IN  {[c |-> cs[1], state |-> cs[2].name] :
            cs \in {pr \in c_rows \X s_rows : pr[1].state = pr[2].state}}

\* ORDER BY s.name, c.name (rows with equal names in any order)
OrderedJoin(J) ==
    {p \in Perms(J) :
        \A i, j \in DOMAIN p :
            i < j => \/ Rank(p[i].state) < Rank(p[j].state)
                     \/ /\ p[i].state = p[j].state
                        /\ Rank(p[i].c.name) <= Rank(p[j].c.name)}

\* LIMIT n OFFSET m of the query text; both appear only if truthy
Window(rows, limit, offset) ==
    LET skip == IF TruthyInt(offset) THEN offset[1] ELSE 0
        rest == SubSeq(rows, skip + 1, Len(rows))
    IN  IF TruthyInt(limit) /\ limit[1] < Len(rest)
        THEN SubSeq(rest, 1, limit[1]) ELSE rest

\* lines 856-877
DistrictBreakdownCompose(rows) ==
    LET step(grouped_states, row) ==
            LET state == row.state
                district == row.c.name
                districts == IF ODHas(grouped_states, state)
                             THEN grouped_states.val[state] ELSE EmptyOD
                tru_data == IF ODHas(districts, district)
                            THEN districts.val[district] ELSE <<>>
            IN  ODSet(grouped_states, state,
                    ODSet(districts, district,
                        Put(tru_data, Lower(row.c.tru),
                            Block(row.c.tot_p, row.c.tot_m, row.c.tot_f))))
        F[k \in 0..Len(rows)] ==
            IF k = 0 THEN EmptyOD ELSE step(F[k - 1], rows[k])
        grouped == F[Len(rows)]
        state_obj(state, districts) ==
            [state |-> state,
             districts |-> [j \in DOMAIN districts.keys |->
                              [name |-> districts.keys[j],
                               population |->
                                  districts.val[districts.keys[j]]]]]
    IN  [i \in DOMAIN grouped.keys |->
            state_obj(grouped.keys[i], grouped.val[grouped.keys[i]])]

DistrictBreakdownOutcomes(S, states, tru, limit, offset) ==
    LET state_values == ParseStates(states)
        bound == IF TruthyStr(tru) THEN Lower(Strip(tru[1])) ELSE ""
        values == IF TruthyStr(tru)
                  THEN Append(state_values, bound) ELSE state_values
        q == Query("query", values,
                   IF TruthyInt(limit) THEN limit ELSE None,
                   IF TruthyInt(offset) THEN offset ELSE None)
    IN  IF TruRejected(tru)
        THEN {Outcome(Response(400, "Invalid tru value", <<>>),
                <<>>, <<>>, 0)}
        ELSE IF state_values = <<>>
        THEN {Outcome(Response(400, "No valid state names provided.", <<>>),
                <<>>, <<>>, 0)}
        ELSE IF TruthyInt(limit) /\ limit[1] < 0
        THEN {Outcome(Swallowed(500, "LIMIT must not be negative"),
                <<q>>, <<>>, 1)}
        ELSE IF TruthyInt(offset) /\ offset[1] < 0
        THEN {Outcome(Swallowed(500, "OFFSET must not be negative"),
                <<q>>, <<>>, 1)}
        ELSE {Outcome(Response(200, "",
                    DistrictBreakdownCompose(Window(rows, limit, offset))),
                <<q>>, <<Window(rows, limit, offset)>>, 1) :
                rows \in OrderedJoin(DistrictJoin(S, state_values, tru,
                                                  bound))}

(***************************************************************************)
(* /states, lines 46-147                                                   *)
(***************************************************************************)
base_columns == <<"state", "name", "level">>

\* field -> (code_column, level_name)
count_fields ==
    [district_count    |-> <<"district", "district">>,
     subdistrict_count |-> <<"subdistt", "sub-district">>,
     village_count     |-> <<"town_village", "village">>,
     town_count        |-> <<"town_village", "town">>]

\* list(count_fields.keys())
count_field_keys ==
    <<"district_count", "subdistrict_count", "village_count", "town_count">>

allowed_fields == base_columns \o count_field_keys

\* [f for f in seq if f in among]
Keep(seq, among) ==
    LET In(f) == f \in Range(among) IN SelectSeq(seq, In)

\* `if fields:` - an absent and an empty fields string are both falsy; the
\* fields parameter is the Optional list of its comma-separated pieces
TruthyCsv(fields) == fields # None /\ fields[1] # <<"">>

SelectedFieldsUnfiltered(fields) ==
    IF TruthyCsv(fields)
    THEN [i \in DOMAIN fields[1] |-> Strip(fields[1][i])]
    ELSE <<"state", "name">>

SelectedFields(fields) ==
    IF TruthyCsv(fields)
    THEN Keep([i \in DOMAIN fields[1] |-> Strip(fields[1][i])],
              allowed_fields)
    ELSE <<"state", "name">>

\* ORDER BY <sort_by> ASC|DESC on two rows
SortsBefore(a, b, sort_by, sort_order) ==
    LET key(r) == IF sort_by = "state" THEN r.state ELSE Rank(r[sort_by])
    IN  IF sort_order = "asc" THEN key(a) <= key(b) ELSE key(a) >= key(b)

\* the elements of seq in the order of their first occurrence
FirstOccurrences(seq) ==
    LET F[k \in 0..Len(seq)] ==
            IF k = 0 THEN <<>>
            ELSE IF seq[k] \in Range(F[k - 1]) THEN F[k - 1]
            ELSE Append(F[k - 1], seq[k])
    IN  F[Len(seq)]

\* the statement the store refuses: DISTINCT ON without a target list, an
\* ORDER BY or WHERE column that census_data or sorted_states lacks, or one
\* that sorted_states has twice (an ambiguous reference)
BaseQueryFails(selected_base, sort_by, state_code) ==
    LET twice(c) == \E i, j \in DOMAIN selected_base :
                       i # j /\ selected_base[i] = c /\ selected_base[j] = c
    IN  \/ selected_base = <<>>
        \/ sort_by \notin Range(base_columns)
        \/ sort_by \notin Range(selected_base)
        \/ twice(sort_by)
        \/ state_code # None /\ "state" \notin Range(selected_base)
        \/ state_code # None /\ twice("state")

\* dict(r) of a base row: the selected base columns in their order, a
\* column selected twice being one key
BaseRecord(r, selected_base) ==
    [keys |-> FirstOccurrences(selected_base),
     val |-> [k \in Range(selected_base) |-> r[k]]]

\* the rows base_query can return, lines 106-116: per state code the first
\* state-level row in the inner order, then the filter, the outer order and
\* the window
BaseRows(S, sort_by, sort_order, state_code, limit, offset) ==
    LET rows == {r \in S : AtLevel(r, "state")}
        codes == {r.state : r \in rows}
        first(c) ==
            {r \in rows :
                /\ r.state = c
                /\ \A x \in rows :
                      x.state = c => SortsBefore(r, x, sort_by, sort_order)}
        picks == {f \in [codes -> rows] : \A c \in codes : f[c] \in first(c)}
        kept(f) == {f[c] : c \in {x \in codes :
                                    state_code = None \/ x = state_code[1]}}
        ordered(f) ==
            {p \in Perms(kept(f)) :
                \A i, j \in DOMAIN p :
                    i < j => SortsBefore(p[i], p[j], sort_by, sort_order)}
    IN  UNION {{Window(p, Some(limit), Some(offset)) : p \in ordered(f)} :
                  f \in picks}

\* SELECT state, COUNT(DISTINCT <code_column>) AS count ... GROUP BY state,
\* lines 127-133.  The handler only files the rows by state (lines 134-138),
\* so they are listed by state code.
CountRows(S, field) ==
    LET code_column == count_fields[field][1]
        level_name == count_fields[field][2]
        rows == {r \in S : AtLevel(r, Lower(level_name))}
        codes == {r.state : r \in rows}
        by_code == CHOOSE p \in Perms(codes) :
                      \A i, j \in DOMAIN p : i < j => p[i] < p[j]
    IN  [i \in DOMAIN by_code |->
            [state |-> by_code[i],
             count |-> Cardinality({r[code_column] :
                          r \in {x \in rows : x.state = by_code[i]}})]]

\* lines 124-143: counts_by_state, then result.update(...)
MergeCounts(results, selected_counts, count_rows) ==
    LET counts(st_code) ==
            LET F[k \in 0..Len(selected_counts)] ==
                    IF k = 0 THEN EmptyOD
                    ELSE LET hit == {i \in DOMAIN count_rows[k] :
                                        count_rows[k][i].state = st_code}
                         IN  IF hit = {} THEN F[k - 1]
                             ELSE ODSet(F[k - 1], selected_counts[k],
                                     count_rows[k][CHOOSE i \in hit : TRUE]
                                         .count)
            IN  F[Len(selected_counts)]
        update(result, d) ==
            LET G[k \in 0..Len(d.keys)] ==
                    IF k = 0 THEN result
                    ELSE ODSet(G[k - 1], d.keys[k], d.val[d.keys[k]])
            IN  G[Len(d.keys)]
    IN  [i \in DOMAIN results |->
            update(results[i], counts(results[i].val["state"]))]

ListStatesOutcomes(S, fields, sort_by, sort_order, state_code, limit, offset) ==
    LET selected_fields == SelectedFields(fields)
        selected_base == Keep(selected_fields, base_columns)
        selected_counts == Keep(selected_fields, count_field_keys)
        base_q == Query("base_query", <<>>, Some(limit), Some(offset))
        count_qs == [k \in DOMAIN selected_counts |->
                       Query("count_query",
                             <<Lower(count_fields[selected_counts[k]][2])>>,
                             None, None)]
        count_rows == [k \in DOMAIN selected_counts |->
                         CountRows(S, selected_counts[k])]
        results(base_rows) ==
            [i \in DOMAIN base_rows |->
                BaseRecord(base_rows[i], selected_base)]
    IN  IF limit < 1 \/ limit > 1000 \/ offset < 0
        THEN {Outcome(Response(422, "validation error", <<>>),
                <<>>, <<>>, 0)}
        ELSE IF TruthyCsv(fields) /\ selected_fields = <<>>
        THEN {Outcome(Response(400, "No valid fields selected", <<>>),
                <<>>, <<>>, 0)}
        ELSE IF BaseQueryFails(selected_base, sort_by, state_code)
        THEN {Outcome(Swallowed(500, "sql error"), <<base_q>>, <<>>, 1)}
        ELSE {IF base_rows # <<>> /\ "state" \notin Range(selected_base)
              THEN Outcome(Swallowed(500, "'state'"),
                      <<base_q>> \o count_qs,
                      <<results(base_rows)>> \o count_rows, 1)
              ELSE Outcome(Response(200, "",
                          MergeCounts(results(base_rows), selected_counts,
                                      count_rows)),
                      <<base_q>> \o count_qs,
                      <<results(base_rows)>> \o count_rows, 1) :
                base_rows \in BaseRows(S, sort_by, sort_order, state_code,
                                       limit, offset)}

(***************************************************************************)
(* Requests                                                                *)
(***************************************************************************)
\* values of the states parameter, split at the commas
StatesParams ==
    { <<"Karnataka">>, <<"karnataka">>, <<"KARNATAKA">>, <<" Karnataka ">>,
      <<"Goa">>, <<"Atlantis">>, <<"">>, <<" ", "Goa">>,
      <<"Karnataka", "Goa">>, <<" goa ", "KARNATAKA">>,
      <<"Goa", "karnataka">> }

\* values of the tru parameter
TruParams ==
    { None, Some(""), Some("rural"), Some("Urban"), Some("URBAN"),
      Some("total"), Some(" rural "), Some("Bogus") }

NoRequest == [op |-> "none"]

NoResponse == Response(0, "", <<>>)

\* the slots for requests handled at the same time
Slots == 1..MaxRequests

NotInFlight ==
    [status |-> "absent", req |-> NoRequest,
     plan |-> Outcome(NoResponse, <<>>, <<>>, 0), issued |-> <<>>,
     acquisitions |-> 0, releases |-> 0, failed_at |-> 0,
     resp |-> NoResponse]

Serve(r, o) ==
    /\ pc' = "done"
    /\ req' = r
    /\ resp' = o.resp
    /\ queries' = o.queries
    /\ fetched' = o.fetched
    /\ acquired' = o.acquired
    /\ UNCHANGED <<store, pool, inflight>>

NameTruRequest(op, states, tru) ==
    [op |-> op, states |-> states, tru |-> tru]

get_state_population ==
    /\ pc = "idle"
    /\ \E states \in StatesParams, tru \in TruParams,
          include_population \in BOOLEAN :
          \E o \in StatePopulationOutcomes(store, states, tru,
                                           include_population) :
             Serve([op |-> "state-population", states |-> states,
                    tru |-> tru,
                    include_population |-> include_population], o)

get_state_gender_population ==
    /\ pc = "idle"
    /\ \E states \in StatesParams, tru \in TruParams :
          \E o \in StateGenderOutcomes(store, states, tru) :
             Serve(NameTruRequest("state-gender-population", states, tru), o)

get_state_literacy ==
    /\ pc = "idle"
    /\ \E states \in StatesParams, tru \in TruParams :
          \E o \in StateLiteracyOutcomes(store, states, tru) :
             Serve(NameTruRequest("state-literacy", states, tru), o)

get_state_workers ==
    /\ pc = "idle"
    /\ \E states \in StatesParams, tru \in TruParams :
          \E o \in StateWorkersOutcomes(store, states, tru) :
             Serve(NameTruRequest("state-workers", states, tru), o)

get_state_caste_population ==
    /\ pc = "idle"
    /\ \E states \in StatesParams, tru \in TruParams :
          \E o \in StateCasteOutcomes(store, states, tru) :
             Serve(NameTruRequest("state-caste-population", states, tru), o)

get_state_non_workers ==
    /\ pc = "idle"
    /\ \E states \in StatesParams, tru \in TruParams :
          \E o \in StateNonWorkersOutcomes(store, states, tru) :
             Serve(NameTruRequest("state-non-workers", states, tru), o)

get_state_households ==
    /\ pc = "idle"
    /\ \E states \in StatesParams, tru \in TruParams :
          \E o \in StateHouseholdsOutcomes(store, states, tru) :
             Serve(NameTruRequest("state-households", states, tru), o)

\* the response has been sent; the handler's locals are gone
Return ==
    /\ pc = "done"
    /\ pc' = "idle"
    /\ req' = NoRequest
    /\ resp' = NoResponse
    /\ queries' = <<>>
    /\ fetched' = <<>>
    /\ acquired' = 0
    /\ UNCHANGED <<store, pool, inflight>>

\* no request is being served one at a time
Quiet ==
    /\ pc = "idle"
    /\ req = NoRequest
    /\ resp = NoResponse
    /\ queries = <<>>
    /\ fetched = <<>>
    /\ acquired = 0

\* the application is up (lifespan() connected at its first attempt) and no
\* request is in flight
Idle ==
    /\ Quiet
    /\ pool = [phase |-> "serving", attempt |-> 1, slept |-> 0,
               created |-> 1, closed |-> 0, out |-> 0]
    /\ inflight = [p \in Slots |-> NotInFlight]

(***************************************************************************)
(* Spec: the seven state-level name/tru endpoints over state-level rows    *)
(***************************************************************************)
Init ==
    /\ store \in BoundedSubsets(StateRows, MaxRows)
    /\ Idle

Next ==
    \/ get_state_population
    \/ get_state_gender_population
    \/ get_state_literacy
    \/ get_state_workers
    \/ get_state_caste_population
    \/ get_state_non_workers
    \/ get_state_households
    \/ Return

Spec == Init /\ [][Next]_vars

(***************************************************************************)
(* Vocabulary of the properties                                            *)
(***************************************************************************)
NameTruOps ==
    { "state-population", "state-gender-population", "state-literacy",
      "state-workers", "state-caste-population", "state-non-workers",
      "state-households" }

Served(ops) == pc = "done" /\ req.op \in ops

\* the request passed validation: tru is absent or a TRU label, and at
\* least one name is left after trimming
ValidNameTruRequest ==
    /\ ~TruRejected(req.tru)
    /\ ParseStates(req.states) # <<>>

\* the request fixes tru to one of total / rural / urban
TruFixed == TruthyStr(req.tru) /\ Lower(req.tru[1]) \in allowed_tru

\* the metric fields each endpoint emits
MetricFields(r) ==
    CASE r.op = "state-population" ->
            IF r.include_population THEN {"population"} ELSE {}
      [] r.op = "state-gender-population" -> {"population"}
      [] r.op = "state-literacy" -> {"literacy"}
      [] r.op = "state-workers" -> {"workers"}
      [] r.op = "state-caste-population" -> {"caste_population"}
      [] r.op = "state-non-workers" -> {"non_workers"}
      [] r.op = "state-households" -> {"households", "population", "under_6"}

\* the keys of a flat metric block of the endpoint
FlatKeys(r) ==
    IF r.op = "state-caste-population" THEN {"sc", "st"}
    ELSE {"total", "male", "female"}

\* Whether metric field m of the emitted object carries its value directly.
\* A block is flat when its keys are the block's own keys.  The two scalar
\* metrics are read where the handler fixes their JSON type: population of
\* /state-population is a dict in every case (lines 208, 216), flat only if
\* it is not keyed by a TRU label; households of /state-households is the
\* number no_hh whenever tru is truthy (line 673).
IsFlat(r, obj, m) ==
    CASE r.op = "state-population" -> DOMAIN obj[m] \cap allowed_tru = {}
      [] r.op = "state-households" /\ m = "households" -> TruthyStr(r.tru)
      [] OTHER -> DOMAIN obj[m] = FlatKeys(r)

\* the fact rows the request fetched, in fetch order (/state-population
\* fetches them second, and only with include_population)
FactRowsFetched ==
    IF fetched = <<>> THEN <<>>
    ELSE IF req.op = "state-population"
         THEN (IF Len(fetched) = 2 THEN fetched[2] ELSE <<>>)
         ELSE fetched[1]

\* the state codes among all rows the request fetched
CodesFetched ==
    UNION {{r.state : r \in Range(fetched[i])} : i \in DOMAIN fetched}

\* the body the handler composes from the fetched row sequences f
Recompose(r, f) ==
    CASE r.op = "state-population" ->
            StatePopulationResults(f[1],
                IF r.include_population THEN f[2] ELSE <<>>,
                r.include_population)
      [] r.op = "state-gender-population" -> StateGenderCompose(f[1], r.tru)
      [] r.op = "state-literacy" -> StateLiteracyCompose(f[1], r.tru)
      [] r.op = "state-workers" -> StateWorkersCompose(f[1], r.tru)
      [] r.op = "state-caste-population" -> StateCasteCompose(f[1], r.tru)
      [] r.op = "state-non-workers" -> StateNonWorkersCompose(f[1], r.tru)
      [] r.op = "state-households" -> StateHouseholdsCompose(f[1], r.tru)

\* every way the same fetched rows can be ordered
Reorderings(f) ==
    IF Len(f) = 1 THEN {<<p>> : p \in Perms(Range(f[1]))}
    ELSE {<<pq[1], pq[2]>> :
            pq \in Perms(Range(f[1])) \X Perms(Range(f[2]))}

\* at most one row per unit (state code) and TRU value
UniquePerUnitTru(rows) ==
    \A i, j \in DOMAIN rows :
        (rows[i].state = rows[j].state
           /\ Strip(Lower(rows[i].tru)) = Strip(Lower(rows[j].tru)))
        => i = j

(***************************************************************************)
(* C1. A syntactically valid request whose name filter matches no fact row *)
(* ends in 404, never in a successful response.                            *)
(* (as stated; the handlers turn their own 404 into a 500)                 *)
(***************************************************************************)
NameFilterMatchesNothing ==
    ~\E r \in store :
        AtLevel(r, "state") /\ NameIn(r, ParseStates(req.states))

C1_NotFoundReachesCaller ==
    (Served(NameTruOps) /\ ValidNameTruRequest /\ NameFilterMatchesNothing)
        => resp.status = 404

(***************************************************************************)
(* C2. With tru fixed to total / rural / urban, every emitted object       *)
(* carries each metric flat and has no TRU key: no "tru" field and no      *)
(* total / rural / urban label wrapping a metric.                          *)
(* (as stated; five handlers nest under the label, one adds "tru")         *)
(***************************************************************************)
C2_TruFixedIsFlat ==
    (Served(NameTruOps) /\ TruFixed /\ resp.status = 200)
        => \A i \in DOMAIN resp.body :
              /\ "tru" \notin DOMAIN resp.body[i]
              /\ \A m \in MetricFields(req) : IsFlat(req, resp.body[i], m)

(***************************************************************************)
(* C3. With tru unset, every metric of every grouped object is nested one  *)
(* level deeper, keyed by exactly the TRU labels stored for that unit.     *)
(* (as stated; /state-households leaves population and under_6 flat)       *)
(***************************************************************************)
LabelsStoredFor(state_id) ==
    {Strip(Lower(r.tru)) :
        r \in {x \in Range(FactRowsFetched) : x.state = state_id}}

C3_TruUnsetIsNested ==
    (Served(NameTruOps) /\ req.tru = None /\ resp.status = 200)
        => \A i \in DOMAIN resp.body :
              \A m \in MetricFields(req) :
                 /\ ~IsFlat(req, resp.body[i], m)
                 /\ DOMAIN resp.body[i][m]
                        = LabelsStoredFor(resp.body[i].state)

(***************************************************************************)
(* C4. Grouping does not depend on the order of the fetched rows: when the *)
(* rows hold at most one row per unit and TRU value, every ordering of     *)
(* them composes the same objects.                                         *)
(* (as stated; /state-households and /state-gender-population seed a       *)
(* group from whichever row comes first)                                   *)
(***************************************************************************)
C4_GroupingOrderIndependent ==
    (Served(NameTruOps) /\ resp.status = 200
        /\ UniquePerUnitTru(FactRowsFetched))
        => \A f \in Reorderings(fetched) :
              Range(Recompose(req, f)) = Range(resp.body)

(***************************************************************************)
(* C5. The grouped output holds exactly one object per distinct state code *)
(* among the fetched rows, whatever the display names are.                 *)
(* (as stated; grouping by (code, name) splits a code whose rows spell the *)
(* name differently)                                                       *)
(***************************************************************************)
C5_OneObjectPerCode ==
    (Served(NameTruOps) /\ resp.status = 200)
        => /\ {resp.body[i].state : i \in DOMAIN resp.body}
                = CodesFetched
           /\ \A i, j \in DOMAIN resp.body :
                 resp.body[i].state = resp.body[j].state => i = j

(***************************************************************************)
(* C9. A supplied tru value that is not total / rural / urban in some      *)
(* letter case, the empty string included, is rejected with a client error *)
(* before any query is issued.                                             *)
(* (as stated; the empty string passes as "no filter")                     *)
(***************************************************************************)
C9_BadTruRejected ==
    (Served(NameTruOps) /\ req.tru # None
        /\ Lower(req.tru[1]) \notin allowed_tru)
        => resp.status = 400 /\ queries = <<>> /\ acquired = 0

(***************************************************************************)
(* SpecLocations: /state-locations and /state-location-hierarchy over a    *)
(* store that holds the state row of Karnataka and rows below state level  *)
(***************************************************************************)
\* Districts 1 and 2 of state 1, a district of another state that reuses
\* code 1, sub-districts (code 1 under both districts, and one whose district
\* has no row), and places.
UnitRows ==
    { MkRow("STATE", 2, 0, 0, 0, "Goa", "Total", 40),
      MkRow("STATE", 3, 0, 0, 0, "Karnataka", "Total", 10),
      MkRow("DISTRICT", 1, 1, 0, 0, "Belgaum", "Total", 500),
      MkRow("DISTRICT", 1, 2, 0, 0, "Bagalkot", "Total", 400),
      MkRow("DISTRICT", 2, 1, 0, 0, "North Goa", "Total", 300),
      MkRow("SUB-DISTRICT", 1, 1, 1, 0, "Chikodi", "Total", 90),
      MkRow("SUB-DISTRICT", 1, 2, 1, 0, "Hunsur", "Total", 80),
      MkRow("SUB-DISTRICT", 1, 9, 2, 0, "Gokak", "Total", 70),
      MkRow("TOWN", 1, 1, 1, 1, "Nipani", "Total", 9),
      MkRow("VILLAGE", 1, 1, 1, 2, "Kabbur", "Total", 8),
      MkRow("VILLAGE", 1, 2, 1, 3, "Mudhol", "Total", 7),
      MkRow(" Town", 1, 2, 1, 4, "Gokak", "Total", 6) }

\* values of the state parameter
StateParams == {"Karnataka", " karnataka ", "KARNATAKA", "Goa", "Atlantis"}

get_state_locations ==
    /\ pc = "idle"
    /\ \E state \in StateParams :
          \E o \in StateLocationsOutcomes(store, state) :
             Serve([op |-> "state-locations", state |-> state], o)

get_location_hierarchy ==
    /\ pc = "idle"
    /\ \E state \in StateParams,
          include_subdistricts \in BOOLEAN, include_places \in BOOLEAN :
          \E o \in LocationHierarchyOutcomes(store, state,
                        include_subdistricts, include_places) :
             Serve([op |-> "state-location-hierarchy", state |-> state,
                    include_subdistricts |-> include_subdistricts,
                    include_places |-> include_places], o)

InitLocations ==
    /\ store \in {{KarnatakaTotal} \cup T :
                    T \in BoundedSubsets(UnitRows, MaxUnits)}
    /\ Idle

NextLocations ==
    \/ get_state_locations
    \/ get_location_hierarchy
    \/ Return

SpecLocations == InitLocations /\ [][NextLocations]_vars

\* the tree the hierarchy handler built from the rows it fetched
TreeFetched ==
    HierarchyTree(fetched[1][1].name, fetched[2], fetched[3], fetched[4],
                  req.include_subdistricts, req.include_places)

HierarchyServed ==
    Served({"state-location-hierarchy"}) /\ resp.status = 200

PlacesOf(sub) ==
    IF "towns" \in DOMAIN sub
    THEN Range(sub.towns) \cup Range(sub.villages) ELSE {}

SubsOf(dist) ==
    IF "subdistricts" \in DOMAIN dist THEN Range(dist.subdistricts) ELSE {}

(***************************************************************************)
(* C7. In the tree of /state-location-hierarchy every sub-district listed  *)
(* under a district carries that district's code, and every town or        *)
(* village listed under a sub-district carries that sub-district's         *)
(* (district, sub-district) codes; the emitted JSON is that tree.          *)
(***************************************************************************)
C7_ChildUnderItsParent ==
    HierarchyServed
        => /\ resp.body = <<Render(TreeFetched)>>
           /\ \A dist \in Range(TreeFetched.districts) :
                 \A sub \in SubsOf(dist) :
                    /\ sub.district = dist.district
                    /\ \A place \in PlacesOf(sub) :
                          /\ place.district = sub.district
                          /\ place.subdistt = sub.subdistt

\* a served tree with two districts, one of them holding a sub-district
\* that holds a place, while the store also holds sub-district code 1 under
\* the other district or a row of another parent
C7_Witness ==
    /\ HierarchyServed
    /\ Len(TreeFetched.districts) = 2
    /\ \E dist \in Range(TreeFetched.districts) :
          \E sub \in SubsOf(dist) : PlacesOf(sub) # {}

(***************************************************************************)
(* SpecListStates: /states over state rows and the units counted per state *)
(***************************************************************************)
ListCatalogue ==
    { KarnatakaTotal,
      MkRow("STATE", 1, 0, 0, 0, "KARNATAKA", "Urban", 60),
      MkRow("STATE", 2, 0, 0, 0, "Goa", "Total", 40),
      MkRow("State", 2, 0, 0, 0, " Goa ", "Total", 40),
      MkRow("DISTRICT", 1, 1, 0, 0, "Belgaum", "Total", 500),
      MkRow("DISTRICT", 1, 1, 0, 0, "Belgaum", "Rural", 350),
      MkRow("DISTRICT", 1, 2, 0, 0, "Bagalkot", "Total", 400),
      MkRow("SUB-DISTRICT", 1, 1, 1, 0, "Chikodi", "Total", 90),
      MkRow("TOWN", 2, 1, 1, 1, "Nipani", "Total", 9) }

\* values of the fields parameter, split at the commas
FieldsParams ==
    { None, Some(<<"">>), Some(<<"state", "name">>),
      Some(<<"name", " state">>), Some(<<"name", "district_count">>),
      Some(<<"state", "level", "district_count", "town_count">>),
      Some(<<"Bogus">>), Some(<<"Bogus", "">>),
      Some(<<"Bogus", "state", "subdistrict_count">>),
      Some(<<"state", "name", "name">>),
      Some(<<"district_count", "state", "district_count">>),
      Some(<<"district_count">>) }

SortByParams == { "state", "name", "district_count" }

SortOrderParams == { "asc", "desc" }

StateCodeParams == { None, Some(1) }

ListLimitParams == { 0, 1, 100, 1001 }

ListOffsetParams == { -1, 0, 1 }

list_states ==
    /\ pc = "idle"
    /\ \E fields \in FieldsParams, sort_by \in SortByParams,
          sort_order \in SortOrderParams, state_code \in StateCodeParams,
          limit \in ListLimitParams, offset \in ListOffsetParams :
          \E o \in ListStatesOutcomes(store, fields, sort_by, sort_order,
                                      state_code, limit, offset) :
             Serve([op |-> "states", fields |-> fields, sort_by |-> sort_by,
                    sort_order |-> sort_order, state_code |-> state_code,
                    limit |-> limit, offset |-> offset], o)

InitListStates ==
    /\ store \in BoundedSubsets(ListCatalogue, MaxRows)
    /\ Idle

NextListStates ==
    \/ list_states
    \/ Return

SpecListStates == InitListStates /\ [][NextListStates]_vars

\* the fields the endpoint documents (line 50)
DeclaredFields ==
    {"state", "name", "level", "district_count", "subdistrict_count",
     "town_count", "village_count"}

\* no piece of the fields string names a declared field
NoDeclaredField(fields) ==
    \A i \in DOMAIN fields[1] : Strip(fields[1][i]) \notin DeclaredFields

ProjectedOntoDeclared ==
    \A i \in DOMAIN resp.body : Range(resp.body[i].keys) \subseteq DeclaredFields

RejectedUnserved ==
    /\ resp.status \in {400, 422}
    /\ acquired = 0
    /\ queries = <<>>

DistrictCatalogue ==
    { MkRow("STATE", 1, 0, 0, 0, "KARNATAKA", "Urban", 60),
      MkRow("STATE", 3, 0, 0, 0, "Karnataka", "Total", 10),
      MkRow("STATE", 2, 0, 0, 0, "Goa", "Total", 40),
      MkRow("DISTRICT", 1, 1, 0, 0, "Belgaum", "Total", 500),
      MkRow("DISTRICT", 1, 1, 0, 0, "Belgaum", "Rural", 350),
      MkRow("DISTRICT", 1, 2, 0, 0, "Bagalkot", "Total", 400),
      MkRow("DISTRICT", 1, 3, 0, 0, "Belgaum", "Total", 450),
      MkRow("DISTRICT", 3, 1, 0, 0, "Belgaum", "Total", 250),
      MkRow("DISTRICT", 2, 1, 0, 0, "North Goa", "Total", 300) }

DistrictStatesParams ==
    { <<"Karnataka">>, <<" karnataka ">>, <<"Karnataka", "Goa">>,
      <<"Atlantis">>, <<" ">> }

DistrictTruParams == { None, Some(""), Some("total"), Some("Bogus") }

\* limit and offset are Optional[int] without bounds (lines 812-813); an
\* omitted limit is None, an omitted offset is 0
LimitParams == { None, Some(0), Some(1), Some(2), Some(1000), Some(1001),
                 Some(-1) }

OffsetParams == { Some(0), Some(1), Some(-1) }

get_district_population_breakdown ==
    /\ pc = "idle"
    /\ \E states \in DistrictStatesParams, tru \in DistrictTruParams,
          limit \in LimitParams, offset \in OffsetParams :
          \E o \in DistrictBreakdownOutcomes(store, states, tru,
                                             limit, offset) :
             Serve([op |-> "district-population-breakdown",
                    states |-> states, tru |-> tru,
                    limit |-> limit, offset |-> offset], o)

InitPaging ==
    /\ store \in {{KarnatakaTotal} \cup T :
                    T \in BoundedSubsets(DistrictCatalogue, MaxRows)}
    /\ Idle

NextPaging ==
    \/ list_states
    \/ get_district_population_breakdown
    \/ Return

SpecPaging == InitPaging /\ [][NextPaging]_vars

(***************************************************************************)
(* C10. Every limit that reaches a store query lies in 1..1000 and every   *)
(* offset that reaches a store query is at least 0.                        *)
(* (as stated; /district-population-breakdown puts any non-zero limit and  *)
(* offset into the query text)                                             *)
(***************************************************************************)
C10_LimitOffsetBounded ==
    \A i \in DOMAIN queries :
        /\ queries[i].limit # None
              => queries[i].limit[1] >= 1 /\ queries[i].limit[1] <= 1000
        /\ queries[i].offset # None => queries[i].offset[1] >= 0

(***************************************************************************)
(* SpecNames: the ten name-filtered endpoints over a store whose state     *)
(* names differ in case and surrounding spaces                             *)
(***************************************************************************)
NameCatalogue ==
    { KarnatakaTotal, KarnatakaUrban,
      MkRow("STATE", 1, 0, 0, 0, "KARNATAKA", "Urban", 60),
      MkRow("State", 2, 0, 0, 0, " Goa ", "Total", 40),
      MkRow("STATE", 3, 0, 0, 0, "Karnataka", "Total", 10),
      MkRow("DISTRICT", 1, 1, 0, 0, "Belgaum", "Total", 500),
      MkRow("DISTRICT", 2, 1, 0, 0, "North Goa", "Total", 300),
      MkRow("SUB-DISTRICT", 1, 1, 1, 0, "Chikodi", "Total", 90),
      MkRow("TOWN", 1, 1, 1, 1, "Nipani", "Total", 9) }

InitNames ==
    /\ store \in BoundedSubsets(NameCatalogue, MaxRows)
    /\ Idle

NextNames ==
    \/ get_state_population
    \/ get_state_gender_population
    \/ get_state_literacy
    \/ get_state_workers
    \/ get_state_caste_population
    \/ get_state_non_workers
    \/ get_state_households
    \/ get_state_locations
    \/ get_location_hierarchy
    \/ get_district_population_breakdown
    \/ Return

SpecNames == InitNames /\ [][NextNames]_vars

\* endpoints that take a comma-separated list of names / a single name
NameListOps == NameTruOps \cup {"district-population-breakdown"}

SingleNameOps == {"state-locations", "state-location-hierarchy"}

NameLists == StatesParams \cup DistrictStatesParams

\* two request names that are equal after trimming and lowercasing
SameName(a, b) == Lower(Strip(a)) = Lower(Strip(b))

SameNames(a, b) ==
    /\ Len(a) = Len(b)
    /\ \A i \in DOMAIN a : SameName(a[i], b[i])

\* what the endpoint of request r can do with the names replaced
NameListOutcomes(r, S, states) ==
    CASE r.op = "state-population" ->
           StatePopulationOutcomes(S, states, r.tru, r.include_population)
      [] r.op = "state-gender-population" ->
           StateGenderOutcomes(S, states, r.tru)
      [] r.op = "state-literacy" -> StateLiteracyOutcomes(S, states, r.tru)
      [] r.op = "state-workers" -> StateWorkersOutcomes(S, states, r.tru)
      [] r.op = "state-caste-population" ->
           StateCasteOutcomes(S, states, r.tru)
      [] r.op = "state-non-workers" ->
           StateNonWorkersOutcomes(S, states, r.tru)
      [] r.op = "state-households" ->
           StateHouseholdsOutcomes(S, states, r.tru)
      [] r.op = "district-population-breakdown" ->
           DistrictBreakdownOutcomes(S, states, r.tru, r.limit, r.offset)

SingleNameOutcomes(r, S, state) ==
    CASE r.op = "state-locations" -> StateLocationsOutcomes(S, state)
      [] r.op = "state-location-hierarchy" ->
           LocationHierarchyOutcomes(S, state, r.include_subdistricts,
                                     r.include_places)

\* what the served request did
ServedOutcome == Outcome(resp, queries, fetched, acquired)

(***************************************************************************)
(* C6. On every name-filtered endpoint, a request name that equals the     *)
(* served one after trimming and lowercasing reads the same rows (hence    *)
(* the same state codes) and gets the same response from the same store,   *)
(* whatever the case and surrounding spaces of the stored names.           *)
(***************************************************************************)
C6_NameResolutionInsensitive ==
    /\ Served(NameListOps) =>
          \A alt \in NameLists :
              SameNames(alt, req.states) =>
                  /\ ServedOutcome \in NameListOutcomes(req, store, alt)
                  /\ NameListOutcomes(req, store, alt)
                        = NameListOutcomes(req, store, req.states)
    /\ Served(SingleNameOps) =>
          \A alt \in StateParams :
              SameName(alt, req.state) =>
                  /\ ServedOutcome \in SingleNameOutcomes(req, store, alt)
                  /\ SingleNameOutcomes(req, store, alt)
                        = SingleNameOutcomes(req, store, req.state)

\* reached: rows of a state stored as "KARNATAKA" or " Goa " answer a request
\* for which another spelling of the same names exists
C6_Witness ==
    /\ Served(NameListOps)
    /\ resp.status = 200
    /\ resp.body # <<>>
    /\ \E alt \in NameLists : alt # req.states /\ SameNames(alt, req.states)
    /\ \E r \in store :
          /\ r.name \in {"KARNATAKA", " Goa "}
          /\ Lower(Strip(r.name)) \in
                {Lower(Strip(req.states[i])) : i \in DOMAIN req.states}

(***************************************************************************)
(* C14. In the tree of /state-location-hierarchy a fetched place is listed *)
(* under "towns" only if its level is town and under "villages" only if    *)
(* its level is village; a fetched place with any other level value is in  *)
(* neither list.                                                           *)
(* (as stated; the handler files every place that is not a town under      *)
(* "villages")                                                             *)
(***************************************************************************)
C14_BucketsByLevel ==
    (HierarchyServed /\ req.include_subdistricts /\ req.include_places) =>
        \A dist \in Range(TreeFetched.districts) :
            \A sub \in SubsOf(dist) :
                /\ \A t \in Range(sub.towns) : Lower(t.level) = "town"
                /\ \A v \in Range(sub.villages) : Lower(v.level) = "village"
                /\ \A p \in Range(fetched[4]) :
                      Lower(p.level) \notin {"town", "village"} =>
                          \A e \in PlacesOf(sub) :
                              ~(/\ e.name = p.name
                                /\ e.level = p.level
                                /\ e.district = p.district
                                /\ e.subdistt = p.subdistt)

\* the names of the queries the request issued
QueryNames == {queries[i].name : i \in DOMAIN queries}

\* the district nodes and the sub-district nodes of the emitted JSON tree
DistrictNodes == Range(resp.body[1].districts)

SubdistrictNodes ==
    UNION {Range(d.subdistricts) :
             d \in {x \in DistrictNodes : "subdistricts" \in DOMAIN x}}

(***************************************************************************)
(* C15. /state-location-hierarchy with include_subdistricts false issues   *)
(* no sub-district and no town/village query, fetches no such rows and     *)
(* emits no district node with a "subdistricts" field; with include_places *)
(* false it issues no town/village query, fetches no such rows and emits   *)
(* no sub-district node with "towns" or "villages".                        *)
(***************************************************************************)
C15_SkippedLevelsNotFetched ==
    Served({"state-location-hierarchy"}) =>
        /\ ~req.include_subdistricts =>
              /\ QueryNames \cap {"subdistricts", "places"} = {}
              /\ resp.status = 200 =>
                    /\ fetched[3] = <<>> /\ fetched[4] = <<>>
                    /\ \A d \in DistrictNodes : DOMAIN d = {"name"}
        /\ ~req.include_places =>
              /\ "places" \notin QueryNames
              /\ resp.status = 200 =>
                    /\ fetched[4] = <<>>
                    /\ \A sd \in SubdistrictNodes : DOMAIN sd = {"name"}

\* reached: sub-districts asked for without places, over a state that has a
\* sub-district and a place stored under an emitted district
C15_Witness ==
    /\ HierarchyServed
    /\ req.include_subdistricts
    /\ ~req.include_places
    /\ SubdistrictNodes # {}
    /\ \E r \in store :
          /\ r.state = fetched[1][1].state
          /\ Strip(Lower(r.level)) \in {"town", "village"}

(***************************************************************************)
(* C16. /state-locations and /state-location-hierarchy resolve a name that *)
(* matches several (code, display name) pairs at state level to the pair   *)
(* with the lowest code.                                                   *)
(* (as stated; the lookup is SELECT DISTINCT ... LIMIT 1 without ORDER BY, *)
(* so the store may hand back any matching pair)                           *)
(***************************************************************************)
C16_LowestCodeResolved ==
    (Served(SingleNameOps) /\ resp.status = 200) =>
        \A m \in StateMetaRows(store, NormalizeName(req.state)) :
            fetched[1][1].state <= m.state

\* the order in which the endpoint declares its fields (line 50)
DeclaredOrder ==
    <<"state", "name", "level", "district_count", "subdistrict_count",
      "town_count", "village_count">>

DeclaredIndex(f) == CHOOSE i \in DOMAIN DeclaredOrder : DeclaredOrder[i] = f

(***************************************************************************)
(* C17. The keys of every object /states emits follow the declared order   *)
(* of the fields, whatever the order in which the request listed them.     *)
(* (as stated; the handler keeps the caller's order among the base columns *)
(* and among the count fields)                                             *)
(***************************************************************************)
C17_KeysInDeclaredOrder ==
    (Served({"states"}) /\ resp.status = 200) =>
        \A k \in DOMAIN resp.body :
            \A i, j \in DOMAIN resp.body[k].keys :
                i < j => DeclaredIndex(resp.body[k].keys[i])
                            < DeclaredIndex(resp.body[k].keys[j])

\* the declared fields the request selected, pieces trimmed
SelectedDeclared ==
    {Strip(req.fields[1][i]) : i \in DOMAIN req.fields[1]} \cap DeclaredFields

\* limit and offset passed the parameter validation of lines 72-79
PagingAccepted == req.limit >= 1 /\ req.limit <= 1000 /\ req.offset >= 0

(***************************************************************************)
(* C20. /states completes successfully for every fields selection that     *)
(* names at least one declared field, and every emitted object then holds  *)
(* each selected base field and no field that was not selected.            *)
(* (as stated; a selection without "state", or of count fields only, ends  *)
(* in a server error)                                                      *)
(***************************************************************************)
C20_NonEmptySelectionServed ==
    (/\ Served({"states"})
     /\ PagingAccepted
     /\ req.sort_by = "state"
     /\ req.state_code = None
     /\ TruthyCsv(req.fields)
     /\ SelectedDeclared # {}) =>
        /\ resp.status = 200
        /\ \A k \in DOMAIN resp.body :
              /\ SelectedDeclared \cap {"state", "name", "level"}
                    \subseteq Range(resp.body[k].keys)
              /\ Range(resp.body[k].keys) \subseteq SelectedDeclared

\* rows i and j belong to the same unit, display name and TRU value
SameKeyTru(rows, i, j) ==
    /\ rows[i].state = rows[j].state
    /\ rows[i].name = rows[j].name
    /\ Lower(rows[i].tru) = Lower(rows[j].tru)

\* the fetched sequence with every row replaced by the last row fetched for
\* its (key, TRU)
LastWrites(rows) ==
    [i \in DOMAIN rows |->
        rows[CHOOSE j \in DOMAIN rows :
                /\ SameKeyTru(rows, i, j)
                /\ \A k \in DOMAIN rows : SameKeyTru(rows, i, k) => k <= j]]

FetchedLastWrites ==
    IF Len(fetched) = 2 THEN <<fetched[1], LastWrites(fetched[2])>>
    ELSE <<LastWrites(fetched[1])>>

\* the request grouped fact rows
FactRowsGrouped ==
    /\ Served(NameTruOps)
    /\ resp.status = 200
    /\ req.op = "state-population" => req.include_population

(***************************************************************************)
(* C18. Where several fetched rows share a group key and TRU value, every  *)
(* emitted metric comes from the last of them: the response is the one the *)
(* handler composes when each row is replaced by the last row fetched for  *)
(* its (key, TRU).                                                         *)
(* (as stated; /state-households takes households, population and under_6  *)
(* from the first row of a state)                                          *)
(***************************************************************************)
C18_LastWriteWins ==
    FactRowsGrouped => resp.body = Recompose(req, FetchedLastWrites)

\* the rows the query of the served /district-population-breakdown request
\* matches before LIMIT and OFFSET
DistrictRowsMatched ==
    DistrictJoin(store, ParseStates(req.states), req.tru,
                 IF TruthyStr(req.tru) THEN Lower(Strip(req.tru[1])) ELSE "")

\* the district objects of the response, each with the state it is under
DistrictObjects ==
    UNION {{[state |-> resp.body[i].state, district |-> d] :
              d \in Range(resp.body[i].districts)} : i \in DOMAIN resp.body}

Min(a, b) == IF a <= b THEN a ELSE b

(***************************************************************************)
(* C19. /district-population-breakdown with limit = n >= 1 (and no offset) *)
(* returns min(n, D) district objects, D being the number of matching      *)
(* districts, and each returned district carries every TRU entry stored    *)
(* for it.                                                                 *)
(* (as stated; LIMIT counts rows, one per district and TRU value)          *)
(***************************************************************************)
C19_LimitCountsDistricts ==
    (/\ Served({"district-population-breakdown"})
     /\ resp.status = 200
     /\ req.limit # None /\ req.limit[1] >= 1
     /\ req.offset = Some(0)) =>
        /\ Cardinality(DistrictObjects)
              = Min(req.limit[1],
                    Cardinality({<<x.state, x.c.name>> :
                                    x \in DistrictRowsMatched}))
        /\ \A o \in DistrictObjects :
              DOMAIN o.district.population
                 = {Lower(x.c.tru) :
                      x \in {y \in DistrictRowsMatched :
                               /\ y.state = o.state
                               /\ y.c.name = o.district.name}}

(***************************************************************************)
(* SpecServer: lifespan() and requests handled concurrently, one step at a *)
(* time.  A request follows the plan of one outcome of its handler: the    *)
(* queries it issues in order and the response it returns if none fails.   *)
(***************************************************************************)
max_retries == 5

delay == 3

ServerStore ==
    { KarnatakaTotal,
      MkRow("DISTRICT", 1, 1, 0, 0, "Belgaum", "Total", 500),
      MkRow("SUB-DISTRICT", 1, 1, 1, 0, "Chikodi", "Total", 90),
      MkRow("TOWN", 1, 1, 1, 1, "Nipani", "Total", 9) }

\* the requests that arrive, each with the outcomes its handler can have
ServerMenu(S) ==
    UNION {
      {<<[op |-> "state-population", states |-> m[1], tru |-> m[2],
          include_population |-> TRUE], o>> :
          o \in StatePopulationOutcomes(S, m[1], m[2], TRUE)} :
        m \in { <<<<"Karnataka">>, None>>, <<<<"Karnataka">>, Some("Bogus")>>,
                <<<<"Atlantis">>, None>> }}
    \cup UNION {
      {<<[op |-> "state-location-hierarchy", state |-> st,
          include_subdistricts |-> TRUE, include_places |-> TRUE], o>> :
          o \in LocationHierarchyOutcomes(S, st, TRUE, TRUE)} :
        st \in {"Karnataka", "Atlantis"}}
    \cup {<<[op |-> "state-locations", state |-> "Karnataka"], o>> :
            o \in StateLocationsOutcomes(S, "Karnataka")}
    \cup UNION {
      {<<[op |-> "states", fields |-> Some(<<"state", "district_count">>),
          sort_by |-> "state", sort_order |-> "asc", state_code |-> None,
          limit |-> lim, offset |-> 0], o>> :
          o \in ListStatesOutcomes(S, Some(<<"state", "district_count">>),
                                   "state", "asc", None, lim, 0)} :
        lim \in {100, 0}}

OtherVarsUnchanged == UNCHANGED <<store, pc, req, fetched, queries, acquired, resp>>

\* app.state.db_pool = await asyncpg.create_pool(DB_URL) succeeds: break
create_pool ==
    /\ pool.phase = "connecting"
    /\ pool' = [pool EXCEPT !.attempt = @ + 1, !.created = @ + 1,
                            !.phase = "serving"]
    /\ UNCHANGED inflight
    /\ OtherVarsUnchanged

\* a failure that goes on to sleep whatever the attempt number
create_pool_fails_then_sleeps ==
    /\ pool.phase = "connecting"
    /\ pool.attempt < max_retries + 1
    /\ pool' = [pool EXCEPT !.attempt = @ + 1, !.phase = "sleeping"]
    /\ UNCHANGED inflight
    /\ OtherVarsUnchanged

\* create_pool raises: re-raise at the last attempt, otherwise sleep
create_pool_fails ==
    /\ pool.phase = "connecting"
    /\ pool' = [pool EXCEPT !.attempt = @ + 1,
                            !.phase = IF pool.attempt + 1 = max_retries
                                      THEN "failed" ELSE "sleeping"]
    /\ UNCHANGED inflight
    /\ OtherVarsUnchanged

\* await asyncio.sleep(delay), then the next attempt
sleep ==
    /\ pool.phase = "sleeping"
    /\ pool' = [pool EXCEPT !.slept = @ + delay, !.phase = "connecting"]
    /\ UNCHANGED inflight
    /\ OtherVarsUnchanged

\* after yield: await app.state.db_pool.close().  The server resumes
\* lifespan() for shutdown once no request is being handled.
close_pool ==
    /\ pool.phase = "serving"
    /\ \A p \in Slots : inflight[p].status = "absent"
    /\ pool' = [pool EXCEPT !.closed = @ + 1, !.phase = "stopped"]
    /\ UNCHANGED inflight
    /\ OtherVarsUnchanged

\* a request arrives; one rejected by validation is answered at once,
\* before `async with app.state.db_pool.acquire()`
receive(p) ==
    /\ pool.phase = "serving"
    /\ inflight[p].status = "absent"
    /\ \E m \in ServerMenu(store) :
          inflight' = [inflight EXCEPT ![p] =
              IF m[2].acquired = 0
              THEN [NotInFlight EXCEPT !.status = "done", !.req = m[1],
                                       !.plan = m[2], !.resp = m[2].resp]
              ELSE [NotInFlight EXCEPT !.status = "received", !.req = m[1],
                                       !.plan = m[2]]]
    /\ UNCHANGED pool
    /\ OtherVarsUnchanged

\* async with app.state.db_pool.acquire() as conn: (entered)
acquire(p) ==
    /\ inflight[p].status = "received"
    /\ inflight' = [inflight EXCEPT ![p].status = "holding",
                                    ![p].acquisitions = @ + 1]
    /\ pool' = [pool EXCEPT !.out = @ + 1]
    /\ OtherVarsUnchanged

\* acquire() raises (outside the handler's try): no connection is held
acquire_fails(p) ==
    /\ inflight[p].status = "received"
    /\ inflight' = [inflight EXCEPT ![p].status = "done",
                       ![p].resp = Response(500, "Internal Server Error",
                                            <<>>)]
    /\ UNCHANGED pool
    /\ OtherVarsUnchanged

\* the next conn.fetch / conn.fetchrow of the handler returns
fetch(p) ==
    /\ inflight[p].status = "holding"
    /\ Len(inflight[p].issued) < Len(inflight[p].plan.queries)
    /\ inflight' = [inflight EXCEPT ![p].issued =
          Append(@, inflight[p].plan.queries[Len(inflight[p].issued) + 1])]
    /\ UNCHANGED pool
    /\ OtherVarsUnchanged

\* a failing query whose connection is never given back
fetch_fails_leaking(p) ==
    /\ inflight[p].status = "holding"
    /\ Len(inflight[p].issued) < Len(inflight[p].plan.queries)
    /\ inflight' = [inflight EXCEPT
          ![p].issued =
              Append(@, inflight[p].plan.queries[Len(inflight[p].issued) + 1]),
          ![p].failed_at = Len(inflight[p].issued) + 1,
          ![p].resp = Swallowed(500, "store failure"),
          ![p].status = "done"]
    /\ UNCHANGED pool
    /\ OtherVarsUnchanged

\* a failing query that is issued again
fetch_fails_retried(p) ==
    /\ inflight[p].status = "holding"
    /\ Len(inflight[p].issued) < Len(inflight[p].plan.queries)
    /\ inflight[p].failed_at = 0
    /\ inflight' = [inflight EXCEPT
          ![p].issued =
              Append(@, inflight[p].plan.queries[Len(inflight[p].issued) + 1]),
          ![p].failed_at = Len(inflight[p].issued) + 1]
    /\ UNCHANGED pool
    /\ OtherVarsUnchanged

\* the next conn.fetch / conn.fetchrow raises: except Exception answers 500
\* and leaving the `async with` block releases the connection
fetch_fails(p) ==
    /\ inflight[p].status = "holding"
    /\ Len(inflight[p].issued) < Len(inflight[p].plan.queries)
    /\ inflight' = [inflight EXCEPT
          ![p].issued =
              Append(@, inflight[p].plan.queries[Len(inflight[p].issued) + 1]),
          ![p].failed_at = Len(inflight[p].issued) + 1,
          ![p].resp = Swallowed(500, "store failure"),
          ![p].status = "done",
          ![p].releases = @ + 1]
    /\ pool' = [pool EXCEPT !.out = @ - 1]
    /\ OtherVarsUnchanged

\* every query returned: the handler returns its response, or raises its
\* 404 into except Exception; the `async with` block releases the connection
respond(p) ==
    /\ inflight[p].status = "holding"
    /\ Len(inflight[p].issued) = Len(inflight[p].plan.queries)
    /\ inflight' = [inflight EXCEPT ![p].resp = inflight[p].plan.resp,
                                    ![p].status = "done",
                                    ![p].releases = @ + 1]
    /\ pool' = [pool EXCEPT !.out = @ - 1]
    /\ OtherVarsUnchanged

\* the response has been sent; the slot is free again
sent(p) ==
    /\ inflight[p].status = "done"
    /\ inflight' = [inflight EXCEPT ![p] = NotInFlight]
    /\ UNCHANGED pool
    /\ OtherVarsUnchanged

InitServer ==
    /\ store = ServerStore
    /\ Quiet
    /\ pool = [phase |-> "connecting", attempt |-> 0, slept |-> 0,
               created |-> 0, closed |-> 0, out |-> 0]
    /\ inflight = [p \in Slots |-> NotInFlight]

NextServer ==
    \/ create_pool
    \/ create_pool_fails
    \/ sleep
    \/ close_pool
    \/ \E p \in Slots : receive(p)
    \/ \E p \in Slots : acquire(p)
    \/ \E p \in Slots : acquire_fails(p)
    \/ \E p \in Slots : fetch(p)
    \/ \E p \in Slots : fetch_fails(p)
    \/ \E p \in Slots : respond(p)
    \/ \E p \in Slots : sent(p)

SpecServer == InitServer /\ [][NextServer]_vars

\* the slots whose request holds a pooled connection
Holding == {p \in Slots : inflight[p].status = "holding"}

ConnectionScoped ==
    /\ \A p \in Slots :
          /\ inflight[p].acquisitions <= 1
          /\ inflight[p].releases <= inflight[p].acquisitions
          /\ inflight[p].issued # <<>> => inflight[p].acquisitions = 1
          /\ inflight[p].status = "holding" =>
                inflight[p].acquisitions = 1 /\ inflight[p].releases = 0
          /\ inflight[p].status = "done" =>
                inflight[p].releases = inflight[p].acquisitions
          /\ (inflight[p].status = "done"
                /\ inflight[p].resp.status \in {400, 422}) =>
                inflight[p].acquisitions = 0 /\ inflight[p].issued = <<>>
    /\ pool.out = Cardinality(Holding)
    /\ (\A p \in Slots : inflight[p].status = "absent") => pool.out = 0

QueriesWhileHolding ==
    \A p \in Slots :
        inflight'[p].issued # inflight[p].issued =>
            inflight'[p].issued = <<>> \/ inflight[p].status = "holding"

(***************************************************************************)
(* C11. Under every interleaving a request that reaches the store acquires *)
(* exactly one pooled connection, issues all its queries while holding it  *)
(* and has released it when it ends, whether it succeeds, raises its own   *)
(* not-found or a query fails; a request rejected by validation acquires   *)
(* none; the pool's checked-out count is the number of requests holding a  *)
(* connection, zero when no request is in flight.                          *)
(***************************************************************************)
C11_ConnectionPerRequest ==
    []ConnectionScoped /\ [][QueriesWhileHolding]_vars

\* reached: one request ended by a failed query and released its connection
\* while another still holds one
C11_Witness ==
    \E p, q \in Slots :
        /\ inflight[p].status = "done"
        /\ inflight[p].failed_at > 0
        /\ inflight[p].releases = 1
        /\ inflight[q].status = "holding"
        /\ inflight[q].issued # <<>>
        /\ pool.out = 1

\* attempts that failed so far
FailedAttempts == pool.attempt - pool.created

Bootstrapped ==
    /\ pool.attempt <= max_retries
    /\ pool.created <= 1
    /\ pool.closed <= 1
    /\ pool.created = 1 <=> pool.phase \in {"serving", "stopped"}
    /\ pool.closed = 1 <=> pool.phase = "stopped"
    /\ pool.slept = delay * (IF pool.phase \in {"sleeping", "failed"}
                             THEN FailedAttempts - 1 ELSE FailedAttempts)
    /\ (pool.attempt = max_retries /\ pool.created = 0) =>
          pool.phase = "failed"
    /\ pool.phase = "failed" =>
          pool.attempt = max_retries /\ pool.closed = 0
    /\ pool.phase # "serving" =>
          \A p \in Slots : inflight[p].status = "absent"

HandlersLeavePoolOpen ==
    inflight' # inflight =>
        /\ pool'.created = pool.created
        /\ pool'.closed = pool.closed
        /\ pool'.phase = pool.phase
        /\ pool.phase = "serving"

(***************************************************************************)
(* C12. lifespan() makes at most max_retries attempts to create the pool,  *)
(* sleeps delay seconds between two consecutive attempts, stops at the     *)
(* first success, and after the last failed attempt fails without a sleep  *)
(* and without a request ever being handled; the pool is created at most   *)
(* once, closed once at shutdown and only after it was created, and no     *)
(* step of a request handler creates or closes it.                         *)
(***************************************************************************)
C12_BoundedBootstrap ==
    []Bootstrapped /\ [][HandlersLeavePoolOpen]_vars

\* reached: the pool was closed after a startup that needed its last attempt
C12_Witness ==
    /\ pool.phase = "stopped"
    /\ pool.attempt = max_retries
    /\ pool.slept = delay * (max_retries - 1)
    /\ pool.closed = 1

FailedAtomically(p) ==
    inflight[p].failed_at # 0 =>
        /\ inflight[p].status = "done"
        /\ inflight[p].resp.status = 500
        /\ inflight[p].resp.body = <<>>
        /\ Len(inflight[p].issued) = inflight[p].failed_at
        /\ inflight[p].issued
              = SubSeq(inflight[p].plan.queries, 1, inflight[p].failed_at)

(***************************************************************************)
(* C13. When a query of a request fails, the first or a later one, the     *)
(* request ends at once with a 500 whose body carries nothing built from   *)
(* the earlier queries, and the failed query was issued once.              *)
(***************************************************************************)
C13_FailsAtomically == \A p \in Slots : FailedAtomically(p)

\* reached: the second query of /state-population failed after the first
\* had returned rows
C13_Witness ==
    \E p \in Slots :
        /\ inflight[p].req.op = "state-population"
        /\ inflight[p].failed_at = 2
        /\ inflight[p].plan.resp.status = 200
        /\ inflight[p].resp.status = 500

====
